---- MODULE Spec2Model ----
(***************************************************************************)
(* MatcherComponent (pipeline/matcher_component.py) and                    *)
(* remove_tokens_custom_attributes (pipeline/utils.py).                    *)
(*                                                                         *)
(* One Doc is modelled.  A token is [idx, len]: the character offset of    *)
(* its first character and its length in characters.  Token positions     *)
(* (Span start/end, match start/end) are 0-based as in the host library,   *)
(* so the token at position p is tokens[p + 1].  Custom token attributes   *)
(* live in doc.user_data under the key (extension name, token.idx), which  *)
(* is how the host library's Token._ accessor stores them; a key that is   *)
(* absent reads as the extension's default.                                *)
(***************************************************************************)
EXTENDS Integers, Sequences, FiniteSets, TLC

\* Largest number of tokens the tokenizer gives the doc.
MaxTokens == 3
\* Largest number of spans (matches returned by the matcher, spans handed to
\* remove_tokens_custom_attributes) processed in one behaviour.
MaxSpans == 2

AttrNames == {"a", "b"}

VARIABLES
    token_extensions,   \* names registered with Token.set_extension
    span_extensions,    \* names registered with Doc.set_extension / Span.set_extension
    tokens,             \* the doc: sequence of [idx, len]
    user_data,          \* doc.user_data: [set of <<name, idx>> -> BOOLEAN]
    used,               \* number of spans processed so far
    last                \* the most recent invocation: arguments, doc as passed, outcome

vars == <<token_extensions, span_extensions, tokens, user_data, used, last>>

------------------------------------------------------------------------------
\* Host document model

NoData == [k \in {} |-> FALSE]

\* Token._.set(name, value): doc.user_data[(name, token.idx)] = value
TokenSet(ud, name, tok, value) ==
    [k \in DOMAIN ud \cup {<<name, tok.idx>>} |->
        IF k = <<name, tok.idx>> THEN value ELSE ud[k]]

\* Token._.get(name) for an extension registered with default=False
TokenGet(ud, name, tok) ==
    IF <<name, tok.idx>> \in DOMAIN ud THEN ud[<<name, tok.idx>>] ELSE FALSE

\* The tokens of Span(doc, start, end), in order
SpanTokens(toks, start, end) == SubSeq(toks, start + 1, end)

\* Token positions of Span(doc, start, end)
SpanPositions(start, end) == start .. (end - 1)

------------------------------------------------------------------------------
\* MatcherComponent.__init__

IsAttribute(attribute_name) == "is_" \o attribute_name
HasAttribute(attribute_name) == "has_" \o attribute_name

Component(attribute_name, merge_on_match) ==
    [is_attribute |-> IsAttribute(attribute_name),
     has_attribute |-> HasAttribute(attribute_name),
     merge_on_match |-> merge_on_match]

Components == {Component(a, m) : a \in AttrNames, m \in BOOLEAN}

\* The components that have been constructed register both extensions.
Constructed(self) ==
    /\ self.is_attribute \in token_extensions
    /\ self.has_attribute \in span_extensions

NoMatches == <<>>

Idle == [op |-> "none", self |-> Component("a", FALSE), matches |-> NoMatches,
         spans |-> <<>>,
         tokens0 |-> <<>>, user_data0 |-> NoData, result |-> "none"]

Construct(attribute_name, merge_on_match) ==
    /\ token_extensions' = token_extensions \cup {IsAttribute(attribute_name)}
    /\ span_extensions' = span_extensions \cup {HasAttribute(attribute_name)}
    /\ UNCHANGED <<tokens, user_data, used, last>>

------------------------------------------------------------------------------
\* MatcherComponent.__call__

\* for token in entity: token._.set(self.is_attribute, True)
RECURSIVE FlagTokens(_, _, _)
FlagTokens(ud, name, entity) ==
    IF entity = <<>> THEN ud
    ELSE FlagTokens(TokenSet(ud, name, Head(entity), TRUE), name, Tail(entity))

\* Variant: the loop starts at the span's second token.
FlagSpanSkipFirst(ud, name, toks, start, end) ==
    FlagTokens(ud, name, SpanTokens(toks, start + 1, end))

\* Variant: the loop runs one token past the span's end.
FlagSpanOneMore(ud, name, toks, start, end) ==
    FlagTokens(ud, name,
               SpanTokens(toks, start, IF end < Len(toks) THEN end + 1 ELSE end))

FlagSpan(ud, name, toks, start, end) ==
    FlagTokens(ud, name, SpanTokens(toks, start, end))

\* Variant: a span that only touches a registered span is refused too.
RetokenizerMergeAdjacent(rt, start, end, skip_registered) ==
    IF skip_registered /\ \E i \in 1..Len(rt.merges) : rt.merges[i] = <<start, end>>
    THEN rt
    ELSE IF (start .. end) \cap rt.tokens_to_merge # {}
    THEN [rt EXCEPT !.raised = TRUE]
    ELSE [rt EXCEPT !.tokens_to_merge = @ \cup (start .. (end - 1)),
                    !.merges = Append(@, <<start, end>>)]

\* retokenizer.merge(entity).  rt is the retokenizer: the positions already
\* marked for merging, the spans registered, and whether merge raised.
\* A span that is already registered is skipped by host releases that keep
\* the list of registered spans (skip_registered) and is an error in the
\* others; a span sharing a token with a registered span is always an error.
RetokenizerMerge(rt, start, end, skip_registered) ==
    IF skip_registered /\ \E i \in 1..Len(rt.merges) : rt.merges[i] = <<start, end>>
    THEN rt
    ELSE IF SpanPositions(start, end) \cap rt.tokens_to_merge # {}
    THEN [rt EXCEPT !.raised = TRUE]
    ELSE [rt EXCEPT !.tokens_to_merge = @ \cup SpanPositions(start, end),
                    !.merges = Append(@, <<start, end>>)]

\* Retokenizer.__exit__: every registered span becomes one token that starts
\* where the span's first token starts and ends where its last token ends.
RECURSIVE SumLen(_)
SumLen(entity) ==
    IF entity = <<>> THEN 0 ELSE Head(entity).len + SumLen(Tail(entity))

RECURSIVE MergedFrom(_, _, _)
MergedFrom(toks, merges, p) ==
    IF p >= Len(toks) THEN <<>>
    ELSE IF \E i \in 1..Len(merges) : merges[i][1] = p
    THEN LET m == CHOOSE i \in 1..Len(merges) : merges[i][1] = p
             e == merges[m][2]
         IN  <<[idx |-> toks[p + 1].idx, len |-> SumLen(SpanTokens(toks, p, e))]>>
                 \o MergedFrom(toks, merges, e)
    ELSE <<toks[p + 1]>> \o MergedFrom(toks, merges, p + 1)

\* Variant: only the first registered span is merged.
RetokenizerExitFirstOnly(toks, rt) ==
    MergedFrom(toks, SubSeq(rt.merges, 1, IF rt.merges = <<>> THEN 0 ELSE 1), 0)

RetokenizerExit(toks, rt) == MergedFrom(toks, rt.merges, 0)

NewRetokenizer == [tokens_to_merge |-> {}, merges |-> <<>>, raised |-> FALSE]

\* The loop of the merge_on_match branch.  It stops at the first error.
RECURSIVE MergeLoop(_, _, _, _, _, _)
MergeLoop(ud, rt, name, toks, matches, skip_registered) ==
    IF matches = <<>> \/ rt.raised THEN [user_data |-> ud, rt |-> rt]
    ELSE LET m == Head(matches)
         IN  MergeLoop(FlagSpan(ud, name, toks, m[2], m[3]),
                       RetokenizerMerge(rt, m[2], m[3], skip_registered),
                       name, toks, Tail(matches), skip_registered)

\* The loop of the other branch.
RECURSIVE FlagLoop(_, _, _, _)
FlagLoop(ud, name, toks, matches) ==
    IF matches = <<>> THEN ud
    ELSE LET m == Head(matches)
         IN  FlagLoop(FlagSpan(ud, name, toks, m[2], m[3]), name, toks, Tail(matches))

\* Variant: merge_on_match is not consulted.
CallBodyAlwaysMerge(self, toks, ud, matches, skip_registered) ==
    IF matches = <<>>
    THEN [tokens |-> toks, user_data |-> ud, result |-> "returned"]
    ELSE LET r == MergeLoop(ud, NewRetokenizer, self.is_attribute, toks,
                            matches, skip_registered)
         IN  [tokens |-> RetokenizerExit(toks, r.rt),
              user_data |-> r.user_data,
              result |-> IF r.rt.raised THEN "raised" ELSE "returned"]

\* The body of __call__ after the matcher has run.
CallBody(self, toks, ud, matches, skip_registered) ==
    IF matches = <<>>
    THEN [tokens |-> toks, user_data |-> ud, result |-> "returned"]
    ELSE IF self.merge_on_match
    THEN LET r == MergeLoop(ud, NewRetokenizer, self.is_attribute, toks,
                            matches, skip_registered)
         IN  [tokens |-> RetokenizerExit(toks, r.rt),
              user_data |-> r.user_data,
              result |-> IF r.rt.raised THEN "raised" ELSE "returned"]
    ELSE [tokens |-> toks,
          user_data |-> FlagLoop(ud, self.is_attribute, toks, matches),
          result |-> "returned"]

\* What self.matcher(doc) can return: (match_id, start, end) over the doc's
\* current tokens, each a non-empty span.  __call__ discards the match id, so
\* every match is given the id of a pattern of its own: its place in the list.
RECURSIVE SeqsUpTo(_, _)
SeqsUpTo(S, n) ==
    IF n = 0 THEN {<<>>}
    ELSE LET shorter == SeqsUpTo(S, n - 1)
         IN  shorter \cup {Append(s, x) : s \in shorter, x \in S}

MatcherResults(n, k) ==
    {[i \in 1..Len(sp) |-> <<i, sp[i][1], sp[i][2]>>] :
        sp \in SeqsUpTo({s \in (0..n) \X (0..n) : s[1] < s[2]}, k)}

Call(self, matches, skip_registered) ==
    /\ Constructed(self)
    /\ used + Len(matches) <= MaxSpans
    /\ LET r == CallBody(self, tokens, user_data, matches, skip_registered)
       IN  /\ tokens' = r.tokens
           /\ user_data' = r.user_data
           /\ last' = [Idle EXCEPT !.op = "call", !.self = self,
                                   !.matches = matches,
                                   !.tokens0 = tokens, !.user_data0 = user_data,
                                   !.result = r.result]
    /\ used' = used + Len(matches)
    /\ UNCHANGED <<token_extensions, span_extensions>>

------------------------------------------------------------------------------
\* MatcherComponent.get_attribute

\* [token._.get(self.is_attribute) for token in span]
RECURSIVE TokenFlags(_, _, _)
TokenFlags(ud, name, entity) ==
    IF entity = <<>> THEN <<>>
    ELSE <<TokenGet(ud, name, Head(entity))>> \o TokenFlags(ud, name, Tail(entity))

\* Variant: only the first element is looked at.
anyFirst(flags) ==
    IF flags = <<>> THEN FALSE ELSE Head(flags)

\* any(list): the builtin
RECURSIVE any(_)
any(flags) ==
    IF flags = <<>> THEN FALSE
    ELSE IF Head(flags) THEN TRUE ELSE any(Tail(flags))

get_attribute(self, ud, entity) == any(TokenFlags(ud, self.is_attribute, entity))

------------------------------------------------------------------------------
\* utils.remove_tokens_custom_attributes

\* for extension in token._._extensions.keys(): token._.set(extension, False)
RECURSIVE ClearToken(_, _, _)
ClearToken(ud, names, tok) ==
    IF names = {} THEN ud
    ELSE LET n == CHOOSE x \in names : TRUE
         IN  ClearToken(TokenSet(ud, n, tok, FALSE), names \ {n}, tok)

\* Variant: the span's last token is left out.
RECURSIVE ClearSpanButLast(_, _, _)
ClearSpanButLast(ud, names, entity) ==
    IF Len(entity) <= 1 THEN ud
    ELSE ClearSpanButLast(ClearToken(ud, names, Head(entity)), names, Tail(entity))

\* for token in span
RECURSIVE ClearSpan(_, _, _)
ClearSpan(ud, names, entity) ==
    IF entity = <<>> THEN ud
    ELSE ClearSpan(ClearToken(ud, names, Head(entity)), names, Tail(entity))

\* for span in spans
RECURSIVE remove_tokens_custom_attributes(_, _, _, _)
remove_tokens_custom_attributes(ud, names, toks, spans) ==
    IF spans = <<>> THEN ud
    ELSE remove_tokens_custom_attributes(
             ClearSpan(ud, names, SpanTokens(toks, Head(spans)[1], Head(spans)[2])),
             names, toks, Tail(spans))

\* Lists of spans of the doc; a span may be empty.
SpanLists(n, k) ==
    SeqsUpTo({s \in (0..n) \X (0..n) : s[1] <= s[2]}, k)

Remove(spans) ==
    /\ used + Len(spans) <= MaxSpans
    /\ user_data' = remove_tokens_custom_attributes(user_data, token_extensions,
                                                    tokens, spans)
    /\ last' = [Idle EXCEPT !.op = "remove", !.spans = spans,
                            !.tokens0 = tokens, !.user_data0 = user_data,
                            !.result = "returned"]
    /\ used' = used + Len(spans)
    /\ UNCHANGED <<token_extensions, span_extensions, tokens>>

------------------------------------------------------------------------------

\* The tokenizer's doc of n tokens, nothing registered, no user data.
Tokenized(n) == [i \in 1..n |-> [idx |-> i - 1, len |-> 1]]

Init ==
    /\ token_extensions = {}
    /\ span_extensions = {}
    /\ \E n \in 0..MaxTokens : tokens = Tokenized(n)
    /\ user_data = NoData
    /\ used = 0
    /\ last = Idle

Next ==
    \/ \E a \in AttrNames, m \in BOOLEAN : Construct(a, m)
    \/ \E self \in Components, skip \in BOOLEAN :
           \E matches \in MatcherResults(Len(tokens), MaxSpans - used) :
               Call(self, matches, skip)
    \/ \E spans \in SpanLists(Len(tokens), MaxSpans - used) : Remove(spans)

Spec == Init /\ [][Next]_vars

------------------------------------------------------------------------------
\* Vocabulary of the properties.  They read the record of the most recent
\* invocation: last.tokens0 and last.user_data0 are the doc as it was passed.

Called == last.op = "call"
Removed == last.op = "remove"

\* Positions of the pre-call doc
Positions0 == 0 .. (Len(last.tokens0) - 1)

\* The pre-call token at position p
Token0(p) == last.tokens0[p + 1]

\* Positions of match i
MatchSpan(i) == SpanPositions(last.matches[i][2], last.matches[i][3])

\* Positions inside at least one match
Matched == UNION {MatchSpan(i) : i \in 1..Len(last.matches)}

\* No token belongs to two matches of the list
PairwiseDisjoint ==
    \A i, j \in 1..Len(last.matches) : i # j => MatchSpan(i) \cap MatchSpan(j) = {}

\* tok extends over the character at offset c
Covers(tok, c) == tok.idx <= c /\ c < tok.idx + tok.len

\* The current flag of the token that now holds pre-call position p
FlagAt(name, p) ==
    \E j \in 1..Len(tokens) :
        /\ Covers(tokens[j], Token0(p).idx)
        /\ TokenGet(user_data, name, tokens[j])

\* Match i is exactly one token of the current doc
IsOneToken(i) ==
    LET first == Token0(last.matches[i][2])
        final == Token0(last.matches[i][3] - 1)
    IN  \E j \in 1..Len(tokens) :
            /\ tokens[j].idx = first.idx
            /\ tokens[j].idx + tokens[j].len = final.idx + final.len

\* Character offsets at which a matched pre-call token starts
MatchedOffsets == {Token0(p).idx : p \in Matched}

Unmatched(tok) == tok.idx \notin MatchedOffsets

RECURSIVE SavedByMerging(_)
SavedByMerging(matches) ==
    IF matches = <<>> THEN 0
    ELSE (Head(matches)[3] - Head(matches)[2] - 1) + SavedByMerging(Tail(matches))

------------------------------------------------------------------------------
\* C1: after __call__ returns, every pre-call position inside a match carries
\* is_<attribute_name> = True, on the token that now holds that position,
\* whether merge_on_match is set or not.
C1_MatchedTokensFlagged ==
    (Called /\ last.result = "returned") =>
        \A p \in Matched : FlagAt(last.self.is_attribute, p)

\* A merging call returned after two matches, one of them longer than a token.
C1_Witness ==
    /\ Called /\ last.result = "returned" /\ last.self.merge_on_match
    /\ Len(last.matches) = 2
    /\ \E i \in 1..2 : Cardinality(MatchSpan(i)) >= 2
    /\ Len(tokens) < Len(last.tokens0)

\* C2: with merge_on_match and pairwise disjoint matches, every match is one
\* token afterwards, the tokens outside the matches are the same tokens in the
\* same order, and the doc is shorter by the sum of (end - start - 1).
C2_DisjointSpansMerged ==
    (Called /\ last.self.merge_on_match /\ PairwiseDisjoint) =>
        /\ \A i \in 1..Len(last.matches) : IsOneToken(i)
        /\ SelectSeq(tokens, Unmatched) = SelectSeq(last.tokens0, Unmatched)
        /\ Len(tokens) = Len(last.tokens0) - SavedByMerging(last.matches)

\* One match of two tokens was merged beside a token outside every match.
C2_Witness ==
    /\ Called /\ last.self.merge_on_match /\ PairwiseDisjoint
    /\ \E i \in 1..Len(last.matches) : Cardinality(MatchSpan(i)) = 2
    /\ Positions0 \ Matched # {}
    /\ Len(tokens) = Len(last.tokens0) - 1

\* No span occurs twice in the list of matches
SpansDistinct ==
    \A i, j \in 1..Len(last.matches) : i # j => MatchSpan(i) # MatchSpan(j)

C4_NoMergeKeepsTokens ==
    (Called /\ ~last.self.merge_on_match) => tokens = last.tokens0

\* A non-merging call flagged a match of two tokens.
C4_Witness ==
    /\ Called /\ ~last.self.merge_on_match
    /\ \E i \in 1..Len(last.matches) : Cardinality(MatchSpan(i)) >= 2
    /\ user_data # last.user_data0
    /\ Len(tokens) >= 2

\* C5: has_<attribute_name> of a span or of the doc is True exactly when one
\* of its tokens has is_<attribute_name> = True, and False when it has no token.
C5_HasIffSomeTokenIs ==
    \A self \in Components : Constructed(self) =>
        \A s \in 0..Len(tokens) : \A e \in s..Len(tokens) :
            get_attribute(self, user_data, SpanTokens(tokens, s, e)) =
                (\E p \in SpanPositions(s, e) :
                    TokenGet(user_data, self.is_attribute, tokens[p + 1]))

\* The doc has the attribute through a token that is not its first one, and
\* a span of it does not.
C5_Witness ==
    \E self \in Components :
        /\ Constructed(self)
        /\ Len(tokens) >= 2
        /\ ~TokenGet(user_data, self.is_attribute, tokens[1])
        /\ get_attribute(self, user_data, SpanTokens(tokens, 0, Len(tokens)))
        /\ ~get_attribute(self, user_data, SpanTokens(tokens, 0, 1))

\* C6: after remove_tokens_custom_attributes(spans), every registered token
\* extension reads False on every token of every span of the list, and
\* has_<attribute_name> is False for each of those spans.
C6_RemoveClearsSpans ==
    Removed =>
        \A i \in 1..Len(last.spans) :
            LET s == last.spans[i][1]
                e == last.spans[i][2]
            IN  /\ \A p \in SpanPositions(s, e) : \A name \in token_extensions :
                       ~TokenGet(user_data, name, tokens[p + 1])
                /\ \A self \in Components : Constructed(self) =>
                       ~get_attribute(self, user_data, SpanTokens(tokens, s, e))

\* Two extensions are registered and a span of two tokens, whose last token
\* was flagged, was cleared.
C6_Witness ==
    /\ Removed
    /\ Cardinality(token_extensions) = 2
    /\ \E i \in 1..Len(last.spans) :
           LET s == last.spans[i][1]
               e == last.spans[i][2]
           IN  /\ e - s = 2
               /\ \E name \in token_extensions :
                      TokenGet(last.user_data0, name, tokens[e])

\* C7: a token outside every match is still a token of the doc and reads the
\* same flags as before the call; with no match the doc comes back unchanged.
C7_UnmatchedUntouched ==
    Called =>
        /\ \A p \in Positions0 \ Matched :
               /\ \E j \in 1..Len(tokens) : tokens[j] = Token0(p)
               /\ \A a \in AttrNames :
                      TokenGet(user_data, IsAttribute(a), Token0(p)) =
                          TokenGet(last.user_data0, IsAttribute(a), Token0(p))
        /\ last.matches = <<>> =>
               /\ tokens = last.tokens0
               /\ user_data = last.user_data0
               /\ last.result = "returned"

\* A call matched one token while the token after it, outside the match,
\* was already flagged with the component's attribute.
C7_Witness ==
    /\ Called /\ Len(last.matches) = 1
    /\ \E p \in Positions0 \ Matched :
           /\ p - 1 \in Matched
           /\ TokenGet(last.user_data0, last.self.is_attribute, Token0(p))
           /\ TokenGet(user_data, last.self.is_attribute, Token0(p))

====
